---- MODULE Spec2Model ----
(***************************************************************************)
(* Authenticated-request lifecycle of the generated stacks.                *)
(*                                                                         *)
(* Backend (go-simple-structure.sh): utils/jwt.go, middlewares/auth.go,    *)
(* handlers/auth_handler.go, repositories/user_repository.go.              *)
(* Frontend (fe-template): stores/auth.ts and the axios client of          *)
(* STRUCTURE_README.md.                                                    *)
(*                                                                         *)
(* Beside it, each under a specification of its own: the user handlers on  *)
(* the users table (SpecUsers), the users store (SpecUsersStore), the      *)
(* debounce composables (SpecDebounce, SpecDebouncedRef), useAsync         *)
(* (SpecAsync) and the pagination helpers (SpecPaging).                    *)
(*                                                                         *)
(* Time is counted in ticks; a second is TicksPerSecond ticks, so that the *)
(* truncation of jwt.NewNumericDate to whole seconds is visible.           *)
(***************************************************************************)
EXTENDS Integers, Sequences, FiniteSets, TLC

VARIABLES
    now,        \* backend: time.Now(), in ticks
    db,         \* backend: rows of the users table
    held,       \* backend: the token returned by the last successful login
    issue,      \* backend: the call of GenerateJWT that made that token
    resp,       \* backend: the request in service and its response
    token,      \* frontend: useAuthStore token.value
    user,       \* frontend: useAuthStore user.value
    loading,    \* frontend: useAuthStore loading.value
    ls,         \* frontend: localStorage item "token"
    inflight,   \* frontend: requests sent through the client, not yet answered
    nav,        \* frontend: window.location.href assigned, page not yet unloaded
    path,       \* frontend: current location
    settled,    \* frontend: how the last settled request ended
    calls,      \* user handlers: the calls in progress, each with its locals
    minted,     \* user handlers: how many times uuid.New() was drawn
    uniqueIndex, \* database: the users table has the unique index on email
    users,      \* useUsersStore users.value
    usersLoading, \* useUsersStore loading.value
    error,      \* useUsersStore error.value
    pending,    \* useUsersStore: calls of its actions awaiting the API
    thrown,     \* useUsersStore: how the last settled call ended for its caller
    overlap,    \* useUsersStore: two calls have been awaiting at once
    clock,      \* browser: time of the event loop, in ticks
    value,      \* useDebounce: the value behind the customRef
    timeout,    \* useDebounce: the timer scheduled last
    timers,     \* useDebounce: its timers neither fired nor cleared
    triggers,   \* useDebounce: calls of trigger()
    state,      \* useDebouncedRef: state.value
    debouncedState, \* useDebouncedRef: debouncedState.value
    refTimeout, \* useDebouncedRef: the timer scheduled last
    refTimers,  \* useDebouncedRef: its timers neither fired nor cleared
    data,       \* useAsync: data.value
    asyncLoading, \* useAsync: loading.value
    asyncError, \* useAsync: error.value
    running,    \* useAsync: calls of execute awaiting asyncFn
    latest,     \* useAsync: the call of execute started last and its result
    rethrown,   \* useAsync: the rejection the last settled call threw
    paging,     \* pagination: page, pageSize and total of the call
    paged       \* pagination: what the call gave

beVars == <<now, db, held, issue, resp>>
feVars == <<token, user, loading, ls, inflight, nav, path, settled>>
uhVars == <<calls, minted, uniqueIndex>>
usVars == <<users, usersLoading, error, pending, thrown, overlap>>
dbVars == <<value, timeout, timers, triggers>>
drVars == <<state, debouncedState, refTimeout, refTimers>>
uaVars == <<data, asyncLoading, asyncError, running, latest, rethrown>>
pgVars == <<paging, paged>>

\* what the login, gate and auth client actions leave alone
otherVars == <<uhVars, usVars, clock, dbVars, drVars, uaVars, pgVars>>

\* what the user handlers leave alone
restOfUserHandlers ==
    <<now, held, issue, feVars, usVars, clock, dbVars, drVars, uaVars, pgVars>>

\* what the users store leaves alone
restOfUsersStore ==
    <<beVars, feVars, uhVars, clock, dbVars, drVars, uaVars, pgVars>>

\* what useDebounce and the clock leave alone
restOfDebounce == <<beVars, feVars, uhVars, usVars, drVars, uaVars, pgVars>>

\* what useDebouncedRef and the clock leave alone
restOfDebouncedRef ==
    <<beVars, feVars, uhVars, usVars, dbVars, uaVars, pgVars>>

\* what useAsync leaves alone
restOfAsync ==
    <<beVars, feVars, uhVars, usVars, clock, dbVars, drVars, pgVars>>

\* what the pagination helpers leave alone
restOfPaging ==
    <<beVars, feVars, uhVars, usVars, clock, dbVars, drVars, uaVars>>

vars == <<now, db, held, issue, resp,
          token, user, loading, ls, inflight, nav, path, settled,
          calls, minted, uniqueIndex,
          users, usersLoading, error, pending, thrown, overlap,
          clock, value, timeout, timers, triggers,
          state, debouncedState, refTimeout, refTimers,
          data, asyncLoading, asyncError, running, latest, rethrown,
          paging, paged>>

----------------------------------------------------------------------------
(* Bounds *)

TicksPerSecond == 2     \* clock resolution below the NumericDate precision
SecondsPerHour == 1     \* scaled length of time.Hour, in seconds
MaxLoginTick == 3       \* logins are explored up to this clock value
MaxOverrun == 3         \* the clock runs this many ticks past the last expiry
MaxInflight == 2        \* frontend requests in flight at once
MaxRedirects == 2       \* redirects the router follows in one navigation
MaxCalls == 2           \* user handler calls in progress at once
MaxCreates == 2         \* rows inserted in one run
MaxPending == 2         \* calls of the users store awaiting at once
MaxUsers == 2           \* length of the users list
Delay == 2              \* the delay of the debounce composables, in ticks
MaxSets == 3            \* calls of set, or of setValue, in one run
MaxClock == 6           \* the event loop is followed up to this time
MaxExecutes == 3        \* calls of execute in one run
MaxTotal == 6           \* rows counted by GetWithPagination
MaxPageSize == 4        \* page sizes from 0 to MaxPageSize
MaxPage == 3            \* pages from 0 to MaxPage

Second == TicksPerSecond
Hour == SecondsPerHour * Second

----------------------------------------------------------------------------
(* HTTP status codes used by the handlers *)

StatusOK == 200
StatusCreated == 201
StatusBadRequest == 400
StatusUnauthorized == 401
StatusForbidden == 403
StatusNotFound == 404
StatusConflict == 409
StatusInternalServerError == 500

----------------------------------------------------------------------------
(* utils/jwt.go *)

jwtSecret == "your-secret-key"

\* 24 * time.Hour
TokenTTL == 24 * Hour

\* jwt.NewNumericDate: the time truncated to whole seconds
NewNumericDate(t) == t \div Second

\* HMAC of a message under a key: equal tags iff same method, key and message
HMAC(alg, key, msg) == [alg |-> alg, key |-> key, msg |-> msg]

\* token.SignedString(key): header.payload.signature
SignedString(hdr, claims, key) ==
    [hdr |-> hdr, claims |-> claims, sig |-> HMAC(hdr.alg, key, <<hdr, claims>>)]

\* variant of GenerateJWT: the email written into the role claim
GenerateJWT_RoleFromEmail(userID, email, role, t1, t2, t3) ==
    SignedString([alg |-> "HS256", typ |-> "JWT"],
                 [user_id |-> userID, email |-> email, role |-> email,
                  exp |-> NewNumericDate(t1 + TokenTTL),
                  iat |-> NewNumericDate(t2),
                  nbf |-> NewNumericDate(t3)],
                 jwtSecret)

\* GenerateJWT, its three reads of time.Now() being t1 <= t2 <= t3
GenerateJWT(userID, email, role, t1, t2, t3) ==
    SignedString([alg |-> "HS256", typ |-> "JWT"],
                 [user_id |-> userID, email |-> email, role |-> role,
                  exp |-> NewNumericDate(t1 + TokenTTL),
                  iat |-> NewNumericDate(t2),
                  nbf |-> NewNumericDate(t3)],
                 jwtSecret)

NoClaims == [none |-> TRUE]

\* a token string is parseable when it has the three segments of a JWT
IsJWT(tok) == DOMAIN tok = {"hdr", "claims", "sig"}

\* signing methods registered in the jwt library
HMACMethods == {"HS256", "HS384", "HS512"}
KnownMethods == HMACMethods \cup {"RS256", "none"}

\* method.Verify(signingString, sig, key) for a []byte key
VerifySig(tok, key) ==
    /\ tok.hdr.alg \in HMACMethods
    /\ tok.sig = HMAC(tok.hdr.alg, key, <<tok.hdr, tok.claims>>)

\* variant of ClaimsError: a token still accepted at the instant of its expiry
ClaimsError_Inclusive(claims, t) ==
    IF t > claims.exp * Second THEN "Expired"
    ELSE IF t < claims.nbf * Second THEN "NotValidYet"
    ELSE "nil"

\* the validator of jwt/v5 on the registered claims, at time t
ClaimsError(claims, t) ==
    IF ~(t < claims.exp * Second) THEN "Expired"
    ELSE IF t < claims.nbf * Second THEN "NotValidYet"
    ELSE "nil"

\* variant of ValidateJWT: the claims parsed without verifying the signature
ValidateJWT_Unverified(tok, t) ==
    IF ~IsJWT(tok) THEN [err |-> "Malformed", claims |-> NoClaims]
    ELSE IF tok.hdr.alg \notin KnownMethods
        THEN [err |-> "Unverifiable", claims |-> NoClaims]
    ELSE IF ClaimsError(tok.claims, t) # "nil"
        THEN [err |-> ClaimsError(tok.claims, t), claims |-> NoClaims]
    ELSE [err |-> "nil", claims |-> tok.claims]

\* ValidateJWT at time t: jwt.ParseWithClaims, then the token.Valid test
ValidateJWT(tok, t) ==
    IF ~IsJWT(tok) THEN [err |-> "Malformed", claims |-> NoClaims]
    ELSE IF tok.hdr.alg \notin KnownMethods
        THEN [err |-> "Unverifiable", claims |-> NoClaims]
    ELSE IF ~VerifySig(tok, jwtSecret)
        THEN [err |-> "SignatureInvalid", claims |-> NoClaims]
    ELSE IF ClaimsError(tok.claims, t) # "nil"
        THEN [err |-> ClaimsError(tok.claims, t), claims |-> NoClaims]
    ELSE [err |-> "nil", claims |-> tok.claims]

----------------------------------------------------------------------------
(* Header values.  A header is a sequence of atoms: literal words, single  *)
(* spaces and token strings.  The empty sequence is the empty string,      *)
(* which is what c.Get returns for a header that was not sent.             *)

Lit(w) == [lit |-> w]
SP == Lit(" ")

\* strings.Split(s, " "), the parts in order; two adjacent separators or a
\* separator at either end give an empty part
RECURSIVE SplitFrom(_, _, _)
SplitFrom(s, i, cur) ==
    IF i > Len(s) THEN <<cur>>
    ELSE IF s[i] = SP THEN <<cur>> \o SplitFrom(s, i + 1, <<>>)
    ELSE SplitFrom(s, i + 1, Append(cur, s[i]))

Split(s) == SplitFrom(s, 1, <<>>)

\* the string a part of the header is: one atom, or some other text that
\* is no token
TokenOf(part) == IF Len(part) = 1 THEN part[1] ELSE Lit("text")

----------------------------------------------------------------------------
(* middlewares/auth.go.  A context is the per-request fiber.Ctx: its       *)
(* locals, the response written so far and whether the route's handler ran.*)

NoLocals == [l \in {} |-> ""]

\* variant of NewCtx: the locals of an earlier request still in the context
NewCtx_Stale ==
    [locals |-> [l \in {"user_id", "email", "role"} |->
                    IF l = "user_id" THEN "u2"
                    ELSE IF l = "email" THEN "bob@x.io" ELSE "admin"],
     status |-> StatusOK, message |-> "", handlerRan |-> FALSE]

NewCtx == [locals |-> NoLocals, status |-> StatusOK, message |-> "",
           handlerRan |-> FALSE]

Reject(ctx, status, message) ==
    [ctx EXCEPT !.status = status, !.message = message]

SetClaims(ctx, claims) ==
    [ctx EXCEPT !.locals = [l \in {"user_id", "email", "role"} |->
                               IF l = "user_id" THEN claims.user_id
                               ELSE IF l = "email" THEN claims.email
                               ELSE claims.role]]

\* c.Locals("role"), nil when the key was never set
Local(ctx, key) == IF key \in DOMAIN ctx.locals THEN ctx.locals[key] ELSE "nil"

RECURSIVE Next_(_, _, _, _)

\* variant of AuthMiddleware: a request without header is let through
AuthMiddleware_HeaderOptional(ctx, rest, authHeader, t) ==
    IF authHeader = <<>>
        THEN Next_(ctx, rest, authHeader, t)
    ELSE LET parts == Split(authHeader) IN
        IF Len(parts) # 2 \/ parts[1] # <<Lit("Bearer")>>
            THEN Reject(ctx, StatusUnauthorized, "Invalid authorization format")
        ELSE LET v == ValidateJWT(TokenOf(parts[2]), t) IN
            IF v.err # "nil"
                THEN Reject(ctx, StatusUnauthorized, "Invalid or expired token")
            ELSE Next_(SetClaims(ctx, v.claims), rest, authHeader, t)

\* variant of AuthMiddleware: an expired token gets a message of its own
AuthMiddleware_ExpiredMessage(ctx, rest, authHeader, t) ==
    IF authHeader = <<>>
        THEN Reject(ctx, StatusUnauthorized, "Authorization header required")
    ELSE LET parts == Split(authHeader) IN
        IF Len(parts) # 2 \/ parts[1] # <<Lit("Bearer")>>
            THEN Reject(ctx, StatusUnauthorized, "Invalid authorization format")
        ELSE LET v == ValidateJWT(TokenOf(parts[2]), t) IN
            IF v.err = "Expired"
                THEN Reject(ctx, StatusUnauthorized, "Token expired")
            ELSE IF v.err # "nil"
                THEN Reject(ctx, StatusUnauthorized, "Invalid or expired token")
            ELSE Next_(SetClaims(ctx, v.claims), rest, authHeader, t)

AuthMiddleware(ctx, rest, authHeader, t) ==
    IF authHeader = <<>>
        THEN Reject(ctx, StatusUnauthorized, "Authorization header required")
    ELSE LET parts == Split(authHeader) IN
        IF Len(parts) # 2 \/ parts[1] # <<Lit("Bearer")>>
            THEN Reject(ctx, StatusUnauthorized, "Invalid authorization format")
        ELSE LET v == ValidateJWT(TokenOf(parts[2]), t) IN
            IF v.err # "nil"
                THEN Reject(ctx, StatusUnauthorized, "Invalid or expired token")
            ELSE Next_(SetClaims(ctx, v.claims), rest, authHeader, t)

\* variant of AdminOnly: a role other than admin answered like a missing one
AdminOnly_Unauthorized(ctx, rest, authHeader, t) ==
    LET role == Local(ctx, "role") IN
    IF role = "nil" THEN Reject(ctx, StatusUnauthorized, "Unauthorized")
    ELSE IF role # "admin"
        THEN Reject(ctx, StatusUnauthorized, "Unauthorized")
    ELSE Next_(ctx, rest, authHeader, t)

AdminOnly(ctx, rest, authHeader, t) ==
    LET role == Local(ctx, "role") IN
    IF role = "nil" THEN Reject(ctx, StatusUnauthorized, "Unauthorized")
    ELSE IF role # "admin"
        THEN Reject(ctx, StatusForbidden, "Admin access required")
    ELSE Next_(ctx, rest, authHeader, t)

\* variant of OptionalAuth: a header that fails verification is rejected
OptionalAuth_Strict(ctx, rest, authHeader, t) ==
    LET parts == Split(authHeader)
        ok == /\ authHeader # <<>>
              /\ Len(parts) = 2 /\ parts[1] = <<Lit("Bearer")>>
              /\ ValidateJWT(TokenOf(parts[2]), t).err = "nil"
    IN  IF authHeader # <<>> /\ ~ok
            THEN Reject(ctx, StatusUnauthorized, "Invalid or expired token")
        ELSE Next_(IF ok THEN SetClaims(ctx, ValidateJWT(TokenOf(parts[2]), t).claims)
                   ELSE ctx,
                   rest, authHeader, t)

OptionalAuth(ctx, rest, authHeader, t) ==
    LET parts == Split(authHeader)
        ok == /\ authHeader # <<>>
              /\ Len(parts) = 2 /\ parts[1] = <<Lit("Bearer")>>
              /\ ValidateJWT(TokenOf(parts[2]), t).err = "nil"
    IN  Next_(IF ok THEN SetClaims(ctx, ValidateJWT(TokenOf(parts[2]), t).claims)
              ELSE ctx,
              rest, authHeader, t)

\* c.Next(): the next middleware of the route, the route's handler after the
\* last one
Next_(ctx, rest, authHeader, t) ==
    IF rest = <<>> THEN [ctx EXCEPT !.handlerRan = TRUE]
    ELSE IF Head(rest) = "AuthMiddleware"
        THEN AuthMiddleware(ctx, Tail(rest), authHeader, t)
    ELSE IF Head(rest) = "AdminOnly"
        THEN AdminOnly(ctx, Tail(rest), authHeader, t)
    ELSE OptionalAuth(ctx, Tail(rest), authHeader, t)

\* a request served by a route with the given middleware chain
Serve(chain, authHeader, t) == Next_(NewCtx, chain, authHeader, t)


----------------------------------------------------------------------------
(* models/user.go, repositories/user_repository.go, utils/password.go *)

\* bcrypt.GenerateFromPassword, the salt left out
HashPassword(password) == [bcrypt |-> password]

\* bcrypt.CompareHashAndPassword(hash, password) returns nil
CheckPassword(password, hash) == hash = HashPassword(password)

Row(id, email, password, role, active) ==
    [id |-> id, email |-> email, name |-> id,
     password |-> HashPassword(password),
     role |-> role, is_active |-> active]

\* the users table the server starts with
InitialUsers ==
    { Row("u1", "alice@x.io", "pw-alice", "user", TRUE),
      Row("u2", "bob@x.io", "pw-bob", "admin", TRUE),
      Row("u3", "carol@x.io", "pw-carol", "user", FALSE) }

\* GetByEmail: (row, nil) when found, (nil, nil) when there is no such row,
\* (nil, err) on any other database error
GetByEmail(rows, email, dbFails) ==
    IF dbFails THEN [user |-> {}, err |-> "db"]
    ELSE [user |-> {u \in rows : u.email = email}, err |-> "nil"]

----------------------------------------------------------------------------
(* handlers/auth_handler.go *)

NoToken == Lit("no token")

\* validate:"required,email"
IsEmail(email) == email \notin {"", "not-an-email"}

ErrorResponse(status, message) ==
    [status |-> status, message |-> message, token |-> NoToken]

\* a panic in a handler: recover.New() turns it into an error and the
\* ErrorHandler answers 500 with the error's text
Panic(text) == ErrorResponse(StatusInternalServerError, text)

NilDereference == "runtime error: invalid memory address or nil pointer dereference"

\* variant of Login: the active flag tested before the password
Login_ActiveFirst(rows, email, password, dbFails, t1, t2, t3) ==
    IF ~IsEmail(email) \/ password = ""
        THEN ErrorResponse(StatusBadRequest, "Validation failed")
    ELSE LET r == GetByEmail(rows, email, dbFails) IN
        IF r.err # "nil"
            THEN ErrorResponse(StatusUnauthorized, "Invalid credentials")
        ELSE IF r.user = {} THEN Panic(NilDereference)
        ELSE LET u == CHOOSE x \in r.user : TRUE IN
            IF ~u.is_active
                THEN ErrorResponse(StatusForbidden, "Account is inactive")
            ELSE IF ~CheckPassword(password, u.password)
                THEN ErrorResponse(StatusUnauthorized, "Invalid credentials")
            ELSE [status |-> StatusOK, message |-> "Login successful",
                  token |-> GenerateJWT(u.id, u.email, u.role, t1, t2, t3)]

\* variant of Login: the token issued with the role "admin"
Login_AdminToken(rows, email, password, dbFails, t1, t2, t3) ==
    IF ~IsEmail(email) \/ password = ""
        THEN ErrorResponse(StatusBadRequest, "Validation failed")
    ELSE LET r == GetByEmail(rows, email, dbFails) IN
        IF r.err # "nil"
            THEN ErrorResponse(StatusUnauthorized, "Invalid credentials")
        ELSE IF r.user = {} THEN Panic(NilDereference)
        ELSE LET u == CHOOSE x \in r.user : TRUE IN
            IF ~CheckPassword(password, u.password)
                THEN ErrorResponse(StatusUnauthorized, "Invalid credentials")
            ELSE IF ~u.is_active
                THEN ErrorResponse(StatusForbidden, "Account is inactive")
            ELSE [status |-> StatusOK, message |-> "Login successful",
                  token |-> GenerateJWT(u.id, u.email, "admin", t1, t2, t3)]

\* AuthHandler.Login; t1..t3 are the reads of time.Now() in GenerateJWT
Login(rows, email, password, dbFails, t1, t2, t3) ==
    IF ~IsEmail(email) \/ password = ""
        THEN ErrorResponse(StatusBadRequest, "Validation failed")
    ELSE LET r == GetByEmail(rows, email, dbFails) IN
        IF r.err # "nil"
            THEN ErrorResponse(StatusUnauthorized, "Invalid credentials")
        ELSE IF r.user = {} THEN Panic(NilDereference)
        ELSE LET u == CHOOSE x \in r.user : TRUE IN
            IF ~CheckPassword(password, u.password)
                THEN ErrorResponse(StatusUnauthorized, "Invalid credentials")
            ELSE IF ~u.is_active
                THEN ErrorResponse(StatusForbidden, "Account is inactive")
            ELSE [status |-> StatusOK, message |-> "Login successful",
                  token |-> GenerateJWT(u.id, u.email, u.role, t1, t2, t3)]

----------------------------------------------------------------------------
(* Requests the backend is sent *)

Emails == {"alice@x.io", "bob@x.io", "carol@x.io", "nobody@x.io", "not-an-email"}
Passwords == {"pw-alice", "pw-bob", "pw-carol", "wrong", ""}

\* middleware chains: the protected group and the /admin group of
\* SetupRoutes, and the other ways the middlewares can be mounted
Chains == { <<"AuthMiddleware">>, <<"AuthMiddleware", "AdminOnly">>,
            <<"OptionalAuth">>, <<"OptionalAuth", "AdminOnly">>,
            <<"AdminOnly">> }

Bearer(tok) == <<Lit("Bearer"), SP, tok>>

OtherRole(role) == IF role = "admin" THEN "user" ELSE "admin"

\* a token with some claims changed and the signature left as it was
Tampered(tok) ==
    { [tok EXCEPT !.claims.role = OtherRole(@)],
      [tok EXCEPT !.claims.user_id = "u9"],
      [tok EXCEPT !.claims.exp = @ + 1],
      [tok EXCEPT !.claims.iat = @ + 1],
      [tok EXCEPT !.claims.nbf = @ - 1] }

\* tokens made without the issuer secret: signed under another key, under
\* another method, or not signed
Forged(claims) ==
    { SignedString([alg |-> "HS256", typ |-> "JWT"], claims, "attacker-key"),
      SignedString([alg |-> "none", typ |-> "JWT"], claims, ""),
      SignedString([alg |-> "RS256", typ |-> "JWT"], claims, "attacker-key"),
      SignedString([alg |-> "XX", typ |-> "JWT"], claims, "attacker-key") }

AdminClaims(t) ==
    [user_id |-> "u2", email |-> "bob@x.io", role |-> "admin",
     exp |-> NewNumericDate(t + TokenTTL), iat |-> NewNumericDate(t),
     nbf |-> NewNumericDate(t)]

\* token strings a caller can put in the header at time t, holding tok
TokenStrings(tok, t) ==
    (IF tok = NoToken THEN {}
     ELSE {tok} \cup Tampered(tok) \cup Forged([tok.claims EXCEPT !.role = "admin"]))
    \cup Forged(AdminClaims(t)) \cup {Lit("garbage")}

Headers(tok, t) ==
    {Bearer(x) : x \in TokenStrings(tok, t)}
    \cup { <<>>, <<Lit("Bearer")>>, <<Lit("Bearer"), SP>>,
           <<Lit("Bearer"), SP, Lit("a"), SP, Lit("b")>> }
    \cup (IF tok = NoToken THEN {}
          ELSE { <<tok>>, <<Lit("Basic"), SP, tok>>, <<Lit("bearer"), SP, tok>>,
                 <<Lit("Bearer"), SP, SP, tok>> })

----------------------------------------------------------------------------
(* Backend actions *)

NoResp == [op |-> "none"]
NoIssue == [at |-> 0, userID |-> "", email |-> "", role |-> ""]

MaxNow == MaxLoginTick + 1 + TokenTTL + MaxOverrun

\* The model follows one request at a time: a request is taken when none is
\* in service, and its response is delivered before the clock moves on.

\* POST /auth/login served at the current time; GenerateJWT may read the
\* clock again one tick later
DoLogin(email, password, dbFails, d) ==
    /\ resp = NoResp
    /\ now <= MaxLoginTick
    /\ LET r == Login(db, email, password, dbFails, now, now + d, now + d) IN
        /\ resp' = [op |-> "login", email |-> email, password |-> password,
                    dbFails |-> dbFails, status |-> r.status,
                    message |-> r.message, token |-> r.token]
        /\ IF r.status = StatusOK
              THEN /\ held' = r.token
                   /\ issue' = LET u == CHOOSE x \in db : x.email = email IN
                                 [at |-> now, userID |-> u.id,
                                  email |-> u.email, role |-> u.role]
              ELSE UNCHANGED <<held, issue>>
    /\ now' = now + d
    /\ UNCHANGED <<db>>
    /\ UNCHANGED feVars
    /\ UNCHANGED otherVars

\* a request to a route behind the given chain, served at the current time
DoRequest(chain, authHeader) ==
    /\ resp = NoResp
    /\ LET c == Serve(chain, authHeader, now) IN
        resp' = [op |-> "request", chain |-> chain, header |-> authHeader,
                 status |-> c.status, message |-> c.message,
                 locals |-> c.locals, handlerRan |-> c.handlerRan]
    /\ UNCHANGED <<now, db, held, issue>>
    /\ UNCHANGED feVars
    /\ UNCHANGED otherVars

\* the response is delivered and time passes
Tick ==
    /\ now < MaxNow
    /\ now' = now + 1
    /\ resp' = NoResp
    /\ UNCHANGED <<db, held, issue>>
    /\ UNCHANGED feVars
    /\ UNCHANGED otherVars


----------------------------------------------------------------------------
(* routes/routes.go.  The router keeps its entries in the order they were  *)
(* registered.  A group created with handlers registers them as a "use"    *)
(* entry on the group's prefix; a route entry matches one method and one   *)
(* path, a segment starting with a colon matching any one segment.         *)

V1 == <<"api", "v1">>

Use(prefix, handler) ==
    [use |-> TRUE, method |-> "ALL", path |-> prefix, handler |-> handler]

Route(method, routePath, handler) ==
    [use |-> FALSE, method |-> method, path |-> routePath, handler |-> handler]

\* the entries of the "protected" group up to the admin group
ProtectedRoutes ==
    << Route("GET", V1 \o <<"users">>, "userHandler.GetAll"),
       Route("GET", V1 \o <<"users", ":id">>, "userHandler.GetByID"),
       Route("PUT", V1 \o <<"users", ":id">>, "userHandler.Update"),
       Route("DELETE", V1 \o <<"users", ":id">>, "userHandler.Delete"),
       Route("GET", V1 \o <<"products">>, "productHandler.GetAll"),
       Route("GET", V1 \o <<"products", ":id">>, "productHandler.GetByID"),
       Route("POST", V1 \o <<"products">>, "productHandler.Create"),
       Route("PUT", V1 \o <<"products", ":id">>, "productHandler.Update"),
       Route("DELETE", V1 \o <<"products", ":id">>, "productHandler.Delete"),
       Route("GET", V1 \o <<"profile">>, "userHandler.GetProfile"),
       Route("PUT", V1 \o <<"profile">>, "userHandler.UpdateProfile"),
       Route("PUT", V1 \o <<"profile", "password">>, "userHandler.ChangePassword") >>

PublicRoutes ==
    << Route("GET", <<"health">>, "health"),
       Route("POST", V1 \o <<"auth", "register">>, "authHandler.Register"),
       Route("POST", V1 \o <<"auth", "login">>, "authHandler.Login"),
       Route("POST", V1 \o <<"auth", "forgot-password">>, "authHandler.ForgotPassword"),
       Route("POST", V1 \o <<"auth", "reset-password">>, "authHandler.ResetPassword") >>

AdminRoutes ==
    << Use(V1 \o <<"admin">>, "AuthMiddleware"),
       Use(V1 \o <<"admin">>, "AdminOnly"),
       Route("GET", V1 \o <<"admin", "users">>, "userHandler.GetAll"),
       Route("DELETE", V1 \o <<"admin", "users", ":id">>, "userHandler.Delete"),
       Route("GET", V1 \o <<"admin", "analytics">>, "userHandler.GetAnalytics") >>

\* variant of SetupRoutes: the protected group created without AuthMiddleware
SetupRoutes_OpenGroup == PublicRoutes \o ProtectedRoutes \o AdminRoutes

\* SetupRoutes: the router's entries, in registration order
SetupRoutes ==
    PublicRoutes \o << Use(V1, "AuthMiddleware") >> \o ProtectedRoutes
        \o AdminRoutes

IsPrefix(prefix, p) ==
    /\ Len(prefix) <= Len(p)
    /\ \A i \in 1..Len(prefix) : prefix[i] = p[i]

IsParam(seg) == seg = ":id"

\* the entry matches the request
Matches(entry, method, reqPath) ==
    IF entry.use THEN IsPrefix(entry.path, reqPath)
    ELSE /\ entry.method = method
         /\ Len(entry.path) = Len(reqPath)
         /\ \A i \in 1..Len(reqPath) :
               IsParam(entry.path[i]) \/ entry.path[i] = reqPath[i]

\* positions of the entries that match the request
Matching(method, reqPath) ==
    {i \in 1..Len(SetupRoutes) : Matches(SetupRoutes[i], method, reqPath)}

\* position of the first route entry that matches, 0 when there is none
FirstRoute(method, reqPath) ==
    LET rs == {i \in Matching(method, reqPath) : ~SetupRoutes[i].use} IN
    IF rs = {} THEN 0 ELSE CHOOSE i \in rs : \A j \in rs : i <= j

RECURSIVE UsesBefore(_, _, _, _)
\* the middlewares of the matching "use" entries from position i up to the
\* first matching route (to the end when last = 0), in order
UsesBefore(i, last, method, reqPath) ==
    IF i > Len(SetupRoutes) \/ (last # 0 /\ i >= last) THEN <<>>
    ELSE IF SetupRoutes[i].use /\ Matches(SetupRoutes[i], method, reqPath)
        THEN <<SetupRoutes[i].handler>> \o UsesBefore(i + 1, last, method, reqPath)
    ELSE UsesBefore(i + 1, last, method, reqPath)

\* the router serving a request: the matching middlewares run in order, each
\* going on with c.Next(); then the matching route's handler runs, or the
\* router answers 404 when no route matches
Dispatch(method, reqPath, authHeader, t) ==
    LET last == FirstRoute(method, reqPath)
        c == Serve(UsesBefore(1, last, method, reqPath), authHeader, t)
    IN  IF ~c.handlerRan
            THEN [status |-> c.status, message |-> c.message,
                  locals |-> c.locals, handler |-> "none"]
        ELSE IF last = 0
            THEN [status |-> 404, message |-> "Cannot " \o method,
                  locals |-> c.locals, handler |-> "none"]
        ELSE [status |-> c.status, message |-> c.message,
              locals |-> c.locals, handler |-> SetupRoutes[last].handler]

\* requests sent to the router
Requests ==
    { [method |-> "GET", path |-> <<"health">>],
      [method |-> "POST", path |-> V1 \o <<"auth", "login">>],
      [method |-> "POST", path |-> V1 \o <<"auth", "register">>],
      [method |-> "GET", path |-> V1 \o <<"auth", "login">>],
      [method |-> "GET", path |-> V1 \o <<"users">>],
      [method |-> "DELETE", path |-> V1 \o <<"users", "u1">>],
      [method |-> "POST", path |-> V1 \o <<"products">>],
      [method |-> "GET", path |-> V1 \o <<"profile">>],
      [method |-> "GET", path |-> V1 \o <<"admin", "users">>],
      [method |-> "DELETE", path |-> V1 \o <<"admin", "users", "u1">>],
      [method |-> "GET", path |-> V1 \o <<"admin", "analytics">>],
      [method |-> "GET", path |-> V1 \o <<"nothing">>],
      [method |-> "GET", path |-> <<"nothing">>] }

\* headers sent to the router: none, the token held, and tokens made or
\* changed without the issuer secret
RouteHeaders(tok, t) ==
    { <<>>, Bearer(Lit("garbage")) }
    \cup {Bearer(x) : x \in Forged(AdminClaims(t))}
    \cup (IF tok = NoToken THEN {}
          ELSE {Bearer(tok), <<tok>>} \cup {Bearer(x) : x \in Tampered(tok)})

\* a request to the router, served at the current time
DoRoute(req, authHeader) ==
    /\ resp = NoResp
    /\ LET c == Dispatch(req.method, req.path, authHeader, now) IN
        resp' = [op |-> "route", method |-> req.method, path |-> req.path,
                 header |-> authHeader, status |-> c.status,
                 message |-> c.message, locals |-> c.locals,
                 handler |-> c.handler]
    /\ UNCHANGED <<now, db, held, issue>>
    /\ UNCHANGED feVars
    /\ UNCHANGED otherVars

----------------------------------------------------------------------------
(* handlers/user_handler.go and repositories/user_repository.go.  A handler *)
(* call is followed between its database accesses: what it read is kept in  *)
(* the call's locals until its next access.                                 *)

\* uuid.New(): the k-th value drawn
NewIds == <<"n1", "n2", "n3", "n4">>

PasswordLen(password) ==
    CASE password = "" -> 0
      [] password = "short" -> 5
      [] OTHER -> 7

\* utils.ValidateStruct on the input of Create
ValidCreateInput(input) ==
    /\ IsEmail(input.email)
    /\ input.name # ""
    /\ PasswordLen(input.password) >= 6

\* UserRepository.GetByID: First gives an error when no row matches
GetByID(rows, id, dbFails) ==
    IF dbFails THEN [user |-> {}, err |-> "db"]
    ELSE IF {u \in rows : u.id = id} = {}
        THEN [user |-> {}, err |-> "record not found"]
    ELSE [user |-> {u \in rows : u.id = id}, err |-> "nil"]

\* User.IsAdmin
IsAdmin(u) == u.role = "admin"

\* UserRepository.Create: INSERT, refused by the unique index on email when
\* the table has it
Create(rows, row, dbFails) ==
    IF dbFails THEN [rows |-> rows, err |-> "db"]
    ELSE IF uniqueIndex /\ \E u \in rows : u.email = row.email
        THEN [rows |-> rows, err |-> "duplicate key"]
    ELSE [rows |-> rows \cup {row}, err |-> "nil"]

\* UserRepository.Update: db.Save writes every column of the row with the
\* primary key; when no row has it, upsert tells whether this gorm inserts
\* the row (INSERT .. ON CONFLICT) or leaves the table as it is
Save(rows, row, upsert, dbFails) ==
    IF dbFails THEN [rows |-> rows, err |-> "db"]
    ELSE LET others == {u \in rows : u.id # row.id} IN
        IF uniqueIndex /\ \E u \in others : u.email = row.email
            THEN [rows |-> rows, err |-> "duplicate key"]
        ELSE IF others = rows /\ ~upsert THEN [rows |-> rows, err |-> "nil"]
        ELSE [rows |-> others \cup {row}, err |-> "nil"]

\* UserRepository.Delete: no error when no row matches
DeleteRow(rows, id, dbFails) ==
    IF dbFails THEN [rows |-> rows, err |-> "db"]
    ELSE [rows |-> {u \in rows : u.id # id}, err |-> "nil"]

UserResp(op, status, message) ==
    [op |-> op, status |-> status, message |-> message]

FreeCalls == (1..MaxCalls) \ {c.id : c \in calls}

NewCall(op, locals) ==
    LET i == CHOOSE x \in FreeCalls : \A y \in FreeCalls : x <= y IN
    [id |-> i, op |-> op, locals |-> locals]

\* inputs of the handlers
CreateInputs ==
    { [email |-> "dave@x.io", name |-> "Dave", password |-> "secret1"],
      [email |-> "dave@x.io", name |-> "", password |-> "secret1"],
      [email |-> "dave@x.io", name |-> "Dave", password |-> "short"],
      [email |-> "not-an-email", name |-> "Dave", password |-> "secret1"] }

TargetIds == {"u1", "u2"}

UpdateInputs ==
    { [name |-> "Zed", is_active |-> "false"],
      [name |-> "", is_active |-> "nil"] }

\* UserHandler.Create up to the answer of GetByEmail, whose error is dropped
CreateBegin(input, dbFails) ==
    /\ FreeCalls # {}
    /\ IF ~ValidCreateInput(input)
          THEN /\ resp' = UserResp("create", StatusBadRequest,
                                   "Validation failed")
               /\ UNCHANGED calls
       ELSE IF GetByEmail(db, input.email, dbFails).user # {}
          THEN /\ resp' = UserResp("create", StatusConflict,
                                   "Email already exists")
               /\ UNCHANGED calls
       ELSE /\ calls' = calls \cup {NewCall("create", input)}
            /\ UNCHANGED resp
    /\ UNCHANGED <<db, minted, uniqueIndex>>
    /\ UNCHANGED restOfUserHandlers

\* UserHandler.Create from the hashing of the password on
CreateInsert(c, dbFails) ==
    /\ c \in calls /\ c.op = "create"
    /\ minted < MaxCreates
    /\ LET row == [id |-> NewIds[minted + 1], email |-> c.locals.email,
                   name |-> c.locals.name,
                   password |-> HashPassword(c.locals.password),
                   role |-> "user", is_active |-> TRUE]
           r == Create(db, row, dbFails)
       IN  /\ db' = r.rows
           /\ resp' = IF r.err # "nil"
                         THEN UserResp("create", StatusInternalServerError,
                                       "Failed to create user")
                         ELSE UserResp("create", StatusCreated,
                                       "User created successfully")
    /\ minted' = minted + 1
    /\ calls' = calls \ {c}
    /\ UNCHANGED uniqueIndex
    /\ UNCHANGED restOfUserHandlers

\* UserHandler.Update up to the answer of GetByID and the parsing of the body
UpdateBegin(id, input, dbFails) ==
    /\ FreeCalls # {}
    /\ LET r == GetByID(db, id, dbFails) IN
        IF r.err # "nil"
           THEN /\ resp' = UserResp("update", StatusNotFound, "User not found")
                /\ UNCHANGED calls
        ELSE LET u == CHOOSE x \in r.user : TRUE
                 named == IF input.name # "" THEN [u EXCEPT !.name = input.name]
                          ELSE u
                 changed == IF input.is_active # "nil"
                               THEN [named EXCEPT !.is_active = (input.is_active = "true")]
                            ELSE named
             IN /\ calls' = calls \cup {NewCall("update", changed)}
                /\ UNCHANGED resp
    /\ UNCHANGED <<db, minted, uniqueIndex>>
    /\ UNCHANGED restOfUserHandlers

\* UserHandler.Update from repo.Update on
UpdateSave(c, upsert, dbFails) ==
    /\ c \in calls /\ c.op = "update"
    /\ LET r == Save(db, c.locals, upsert, dbFails) IN
        /\ db' = r.rows
        /\ resp' = IF r.err # "nil"
                      THEN UserResp("update", StatusInternalServerError,
                                    "Failed to update user")
                      ELSE UserResp("update", StatusOK,
                                    "User updated successfully")
    /\ calls' = calls \ {c}
    /\ UNCHANGED <<minted, uniqueIndex>>
    /\ UNCHANGED restOfUserHandlers

\* variant of DeleteBegin: the business rule left out
DeleteBegin_AnyRole(id, dbFails) ==
    /\ FreeCalls # {}
    /\ LET r == GetByID(db, id, dbFails) IN
        IF r.err # "nil"
           THEN /\ resp' = UserResp("delete", StatusNotFound, "User not found")
                /\ UNCHANGED calls
        ELSE /\ calls' = calls \cup {NewCall("delete", [id |-> id])}
             /\ UNCHANGED resp
    /\ UNCHANGED <<db, minted, uniqueIndex>>
    /\ UNCHANGED restOfUserHandlers

\* UserHandler.Delete up to the business rule
DeleteBegin(id, dbFails) ==
    /\ FreeCalls # {}
    /\ LET r == GetByID(db, id, dbFails) IN
        IF r.err # "nil"
           THEN /\ resp' = UserResp("delete", StatusNotFound, "User not found")
                /\ UNCHANGED calls
        ELSE IF IsAdmin(CHOOSE x \in r.user : TRUE)
           THEN /\ resp' = UserResp("delete", StatusForbidden,
                                    "Cannot delete admin user")
                /\ UNCHANGED calls
        ELSE /\ calls' = calls \cup {NewCall("delete", [id |-> id])}
             /\ UNCHANGED resp
    /\ UNCHANGED <<db, minted, uniqueIndex>>
    /\ UNCHANGED restOfUserHandlers

\* UserHandler.Delete from repo.Delete on
DeleteExec(c, dbFails) ==
    /\ c \in calls /\ c.op = "delete"
    /\ LET r == DeleteRow(db, c.locals.id, dbFails) IN
        /\ db' = r.rows
        /\ resp' = IF r.err # "nil"
                      THEN UserResp("delete", StatusInternalServerError,
                                    "Failed to delete user")
                      ELSE UserResp("delete", StatusOK,
                                    "User deleted successfully")
    /\ calls' = calls \ {c}
    /\ UNCHANGED <<minted, uniqueIndex>>
    /\ UNCHANGED restOfUserHandlers

----------------------------------------------------------------------------
(* utils/response.go PaginatedResponse and UserRepository.GetWithPagination *)

Abs(n) == IF n < 0 THEN -n ELSE n

\* Go's a / b on int for b # 0: the quotient truncated toward zero
Quo(a, b) ==
    LET q == Abs(a) \div Abs(b) IN
    IF (a < 0) = (b < 0) THEN q ELSE -q

\* Go's a % b on int for b # 0: the sign follows a
Rem(a, b) == a - b * Quo(a, b)

IntegerDivideByZero == "runtime error: integer divide by zero"

\* PaginatedResponse: the total_pages it reports, or the panic of the
\* division
PaginatedResponse(page, pageSize, totalItems) ==
    IF pageSize = 0 THEN Panic(IntegerDivideByZero)
    ELSE LET totalPages == Quo(totalItems, pageSize) IN
        [status |-> StatusOK, message |-> "Data fetched successfully",
         total_pages |-> IF Rem(totalItems, pageSize) # 0 THEN totalPages + 1
                         ELSE totalPages]

\* GetWithPagination: the offset it reads from
Offset(page, pageSize) == (page - 1) * pageSize

NotPaged == [op |-> "none"]

\* a handler answers with PaginatedResponse
Paginate ==
    /\ paged = NotPaged
    /\ paged' = [op |-> "PaginatedResponse",
                 out |-> PaginatedResponse(paging.page, paging.pageSize,
                                           paging.total)]
    /\ UNCHANGED paging
    /\ UNCHANGED restOfPaging

\* a handler reads a page with GetWithPagination
Query ==
    /\ paged = NotPaged
    /\ paged' = [op |-> "GetWithPagination",
                 out |-> [offset |-> Offset(paging.page, paging.pageSize)]]
    /\ UNCHANGED paging
    /\ UNCHANGED restOfPaging

----------------------------------------------------------------------------
(* Frontend: stores/auth.ts and api/client.ts *)

Null == "null"

\* bodies of successful answers to POST /auth/login (AuthResponse)
AuthResponses == { [token |-> "tok-a", user |-> "alice"],
                   [token |-> "tok-b", user |-> "bob"] }

FeTokens == {r.token : r \in AuthResponses}

\* statuses of failed answers; 0 is a request that got no response at all
FailStatuses == {0, StatusUnauthorized, StatusForbidden, StatusInternalServerError}

NotSettled == [kind |-> "none", status |-> 0]

\* computed(() => !!token.value)
isAuthenticated == token # Null

\* variant of Attach: the header set without testing the stored token
Attach_Always(stored) == <<"Bearer", stored>>

\* request interceptor: the Authorization header of the outgoing request
Attach(stored) == IF stored # Null THEN <<"Bearer", stored>> ELSE <<>>

FreeIds == (1..MaxInflight) \ {r.id : r \in inflight}

\* client.get/post/...: the request interceptor runs and the request leaves
Send(kind) ==
    /\ FreeIds # {}
    /\ LET i == CHOOSE x \in FreeIds : \A y \in FreeIds : x <= y IN
        inflight' = inflight \cup {[id |-> i, kind |-> kind, hdr |-> Attach(ls)]}

\* useAuthStore.login up to the await
login ==
    /\ loading' = TRUE
    /\ Send("login")
    /\ UNCHANGED <<token, user, ls, nav, path, settled>>
    /\ UNCHANGED beVars
    /\ UNCHANGED otherVars

\* variant of loginFulfilled: the token kept when one is already stored
loginFulfilled_KeepFirst(r, body) ==
    /\ r \in inflight /\ r.kind = "login"
    /\ inflight' = inflight \ {r}
    /\ token' = IF token # Null THEN token ELSE body.token
    /\ user' = body.user
    /\ ls' = IF ls # Null THEN ls ELSE body.token
    /\ loading' = FALSE
    /\ settled' = [kind |-> "login", status |-> StatusOK]
    /\ UNCHANGED <<nav, path>>
    /\ UNCHANGED beVars
    /\ UNCHANGED otherVars

\* useAuthStore.login resumed with the answer of a successful login
loginFulfilled(r, body) ==
    /\ r \in inflight /\ r.kind = "login"
    /\ inflight' = inflight \ {r}
    /\ token' = body.token
    /\ user' = body.user
    /\ ls' = body.token
    /\ loading' = FALSE
    /\ settled' = [kind |-> "login", status |-> StatusOK]
    /\ UNCHANGED <<nav, path>>
    /\ UNCHANGED beVars
    /\ UNCHANGED otherVars

\* response interceptor, error branch
onRejected(status) ==
    IF status = StatusUnauthorized
        THEN ls' = Null /\ nav' = TRUE
        ELSE UNCHANGED <<ls, nav>>

\* variant of requestRejected: a request answered 401 is sent again
requestRejected_Retry(r, status) ==
    /\ r \in inflight
    /\ inflight' = IF status = StatusUnauthorized
                       THEN (inflight \ {r}) \cup {[r EXCEPT !.hdr = <<>>]}
                       ELSE inflight \ {r}
    /\ onRejected(status)
    /\ loading' = IF r.kind = "login" THEN FALSE ELSE loading
    /\ settled' = [kind |-> r.kind, status |-> status]
    /\ UNCHANGED <<token, user, path>>
    /\ UNCHANGED beVars
    /\ UNCHANGED otherVars

\* a request fails: the response interceptor runs, then the caller's finally
requestRejected(r, status) ==
    /\ r \in inflight
    /\ inflight' = inflight \ {r}
    /\ onRejected(status)
    /\ loading' = IF r.kind = "login" THEN FALSE ELSE loading
    /\ settled' = [kind |-> r.kind, status |-> status]
    /\ UNCHANGED <<token, user, path>>
    /\ UNCHANGED beVars
    /\ UNCHANGED otherVars

\* any other call through the client (userApi, productApi, authApi.me)
apiCall ==
    /\ Send("api")
    /\ UNCHANGED <<token, user, loading, ls, nav, path, settled>>
    /\ UNCHANGED beVars
    /\ UNCHANGED otherVars

apiFulfilled(r) ==
    /\ r \in inflight /\ r.kind = "api"
    /\ inflight' = inflight \ {r}
    /\ settled' = [kind |-> "api", status |-> StatusOK]
    /\ UNCHANGED <<token, user, loading, ls, nav, path>>
    /\ UNCHANGED beVars
    /\ UNCHANGED otherVars

\* variant of logout: the token left in localStorage
logout_KeepStorage ==
    /\ token' = Null
    /\ user' = Null
    /\ path' = "/login"
    /\ UNCHANGED <<ls, loading, inflight, nav, settled>>
    /\ UNCHANGED beVars
    /\ UNCHANGED otherVars

\* useAuthStore.logout, called by the header's handleLogout, which then
\* pushes /login
logout ==
    /\ token' = Null
    /\ user' = Null
    /\ ls' = Null
    /\ path' = "/login"
    /\ UNCHANGED <<loading, inflight, nav, settled>>
    /\ UNCHANGED beVars
    /\ UNCHANGED otherVars

\* the navigation started by window.location.href = '/login' completes: the
\* page is loaded again and the store is created anew from localStorage
pageLoad ==
    /\ nav
    /\ token' = ls
    /\ user' = Null
    /\ loading' = FALSE
    /\ inflight' = {}
    /\ nav' = FALSE
    /\ path' = "/login"
    /\ settled' = NotSettled
    /\ UNCHANGED ls
    /\ UNCHANGED beVars
    /\ UNCHANGED otherVars

----------------------------------------------------------------------------
(* Frontend: router/index.ts *)

\* the routes of createRouter with their meta.requiresAuth
routes ==
    { [path |-> "/", requiresAuth |-> FALSE],
      [path |-> "/users", requiresAuth |-> TRUE],
      [path |-> "/products", requiresAuth |-> FALSE],
      [path |-> "/login", requiresAuth |-> FALSE] }

RoutePaths == {r.path : r \in routes}

requiresAuth(to) == (CHOOSE r \in routes : r.path = to).requiresAuth

\* variant of beforeEach: every navigation let through
beforeEach_AllowAll(to, authenticated) == to

\* router.beforeEach: the location handed to next(), "to" itself for next()
beforeEach(to, authenticated) ==
    IF requiresAuth(to) /\ ~authenticated THEN "/login" ELSE to

RECURSIVE Resolve(_, _, _)
\* the router running the guard on a navigation and on each redirect it
\* answers, giving up after MaxRedirects redirects
Resolve(to, authenticated, redirects) ==
    LET target == beforeEach(to, authenticated) IN
    IF target = to THEN to
    ELSE IF redirects = 0 THEN "aborted"
    ELSE Resolve(target, authenticated, redirects - 1)

\* router.push(to), or a link to "to" followed
navigate(to) ==
    /\ path' = Resolve(to, isAuthenticated, MaxRedirects)
    /\ UNCHANGED <<token, user, loading, ls, inflight, nav, settled>>
    /\ UNCHANGED beVars
    /\ UNCHANGED otherVars

----------------------------------------------------------------------------
(* Frontend: stores/users.ts *)

NotThrown == [kind |-> "none", message |-> Null]

\* users the API answers with
ApiUsers == {[id |-> "a"], [id |-> "b"]}

\* lists of users of length at most n
RECURSIVE ListsUpTo(_)
ListsUpTo(n) ==
    IF n = 0 THEN {<<>>}
    ELSE ListsUpTo(n - 1)
         \cup {Append(l, u) : l \in {x \in ListsUpTo(n - 1) : Len(x) = n - 1},
                              u \in ApiUsers}

\* messages of the errors the API rejects with
Messages == {"Network Error", "Request failed with status code 500"}

\* computed(() => users.value.length)
total == Len(users)

RECURSIVE Filter(_, _)
\* users.value.filter((u) => u.id !== id)
Filter(list, id) ==
    IF list = <<>> THEN <<>>
    ELSE IF Head(list).id # id THEN <<Head(list)>> \o Filter(Tail(list), id)
    ELSE Filter(Tail(list), id)

FreePending == (1..MaxPending) \ {p.id : p \in pending}

\* the call goes to the API and its function waits
Await(kind, arg) ==
    /\ FreePending # {}
    /\ LET i == CHOOSE x \in FreePending : \A y \in FreePending : x <= y IN
        pending' = pending \cup {[id |-> i, kind |-> kind, arg |-> arg]}
    /\ overlap' = (overlap \/ pending # {})

\* fetchAll up to the await
fetchAll ==
    /\ usersLoading' = TRUE
    /\ error' = Null
    /\ Await("fetchAll", Null)
    /\ UNCHANGED <<users, thrown>>
    /\ UNCHANGED restOfUsersStore

\* fetchAll resumed with the list
fetchAllFulfilled(p, result) ==
    /\ p \in pending /\ p.kind = "fetchAll"
    /\ users' = result
    /\ usersLoading' = FALSE
    /\ pending' = pending \ {p}
    /\ thrown' = [kind |-> "fetchAll", message |-> Null]
    /\ UNCHANGED <<error, overlap>>
    /\ UNCHANGED restOfUsersStore

\* create up to the await
create ==
    /\ usersLoading' = TRUE
    /\ Await("create", Null)
    /\ UNCHANGED <<users, error, thrown>>
    /\ UNCHANGED restOfUsersStore

\* variant of createFulfilled: the new user put first
createFulfilled_Unshift(p, newUser) ==
    /\ p \in pending /\ p.kind = "create"
    /\ Len(users) < MaxUsers
    /\ users' = <<newUser>> \o users
    /\ usersLoading' = FALSE
    /\ pending' = pending \ {p}
    /\ thrown' = [kind |-> "create", message |-> Null]
    /\ UNCHANGED <<error, overlap>>
    /\ UNCHANGED restOfUsersStore

\* create resumed with the new user
createFulfilled(p, newUser) ==
    /\ p \in pending /\ p.kind = "create"
    /\ Len(users) < MaxUsers
    /\ users' = Append(users, newUser)
    /\ usersLoading' = FALSE
    /\ pending' = pending \ {p}
    /\ thrown' = [kind |-> "create", message |-> Null]
    /\ UNCHANGED <<error, overlap>>
    /\ UNCHANGED restOfUsersStore

\* remove up to the await
remove(id) ==
    /\ usersLoading' = TRUE
    /\ Await("remove", id)
    /\ UNCHANGED <<users, error, thrown>>
    /\ UNCHANGED restOfUsersStore

\* remove resumed
removeFulfilled(p) ==
    /\ p \in pending /\ p.kind = "remove"
    /\ users' = Filter(users, p.arg)
    /\ usersLoading' = FALSE
    /\ pending' = pending \ {p}
    /\ thrown' = [kind |-> "remove", message |-> Null]
    /\ UNCHANGED <<error, overlap>>
    /\ UNCHANGED restOfUsersStore

\* the API call of fetchAll, create or remove rejects: catch, then finally
usersRejected(p, message) ==
    /\ p \in pending
    /\ error' = message
    /\ usersLoading' = FALSE
    /\ pending' = pending \ {p}
    /\ thrown' = [kind |-> p.kind, message |-> message]
    /\ UNCHANGED <<users, overlap>>
    /\ UNCHANGED restOfUsersStore

----------------------------------------------------------------------------
(* Frontend: composables/useDebounce.ts.  A timer is its id, the time from *)
(* which it may fire and the newValue its callback holds.                  *)

NoTimer == [id |-> 0, due |-> 0, val |-> Null]

Values == {"v0", "v1", "v2"}

InitialValue == "v0"

\* setTimeout(callback, delay) called at time t
setTimeout(previous, newValue, t) ==
    [id |-> previous.id + 1, due |-> t + Delay, val |-> newValue]

\* clearTimeout(handle): nothing happens when the timer has fired, was
\* cleared, or handle is undefined
clearTimeout(live, handle) == live \ {handle}

\* the timer the event loop runs next: the one due first
NextTimer(live) ==
    CHOOSE x \in live : \A y \in live :
        x.due < y.due \/ (x.due = y.due /\ x.id <= y.id)

\* variant of set: the timer scheduled before is left running
set_NoClear(newValue) ==
    /\ timeout.id < MaxSets
    /\ clock + Delay <= MaxClock
    /\ timeout' = setTimeout(timeout, newValue, clock)
    /\ timers' = timers \cup {timeout'}
    /\ UNCHANGED <<clock, value, triggers>>
    /\ UNCHANGED restOfDebounce

\* useDebounce: set of the customRef
set(newValue) ==
    /\ timeout.id < MaxSets
    /\ clock + Delay <= MaxClock
    /\ timeout' = setTimeout(timeout, newValue, clock)
    /\ timers' = clearTimeout(timers, timeout) \cup {timeout'}
    /\ UNCHANGED <<clock, value, triggers>>
    /\ UNCHANGED restOfDebounce

\* useDebounce: the callback of a timer runs
fire ==
    /\ timers # {}
    /\ LET x == NextTimer(timers) IN
        /\ x.due <= clock
        /\ value' = x.val
        /\ triggers' = triggers + 1
        /\ timers' = timers \ {x}
    /\ UNCHANGED <<clock, timeout>>
    /\ UNCHANGED restOfDebounce

\* time passes in the browser
elapse ==
    /\ clock < MaxClock
    /\ clock' = clock + 1
    /\ UNCHANGED <<dbVars, drVars>>
    /\ UNCHANGED <<beVars, feVars, uhVars, usVars, uaVars, pgVars>>

\* variant of setValue: the timer scheduled before is left running
setValue_NoClear(newValue) ==
    /\ refTimeout.id < MaxSets
    /\ clock + Delay <= MaxClock
    /\ state' = newValue
    /\ refTimeout' = setTimeout(refTimeout, newValue, clock)
    /\ refTimers' = refTimers \cup {refTimeout'}
    /\ UNCHANGED <<clock, debouncedState>>
    /\ UNCHANGED restOfDebouncedRef

\* useDebouncedRef: setValue
setValue(newValue) ==
    /\ refTimeout.id < MaxSets
    /\ clock + Delay <= MaxClock
    /\ state' = newValue
    /\ refTimeout' = setTimeout(refTimeout, newValue, clock)
    /\ refTimers' = clearTimeout(refTimers, refTimeout) \cup {refTimeout'}
    /\ UNCHANGED <<clock, debouncedState>>
    /\ UNCHANGED restOfDebouncedRef

\* useDebouncedRef: the callback of a timer runs
refFire ==
    /\ refTimers # {}
    /\ LET x == NextTimer(refTimers) IN
        /\ x.due <= clock
        /\ debouncedState' = x.val
        /\ refTimers' = refTimers \ {x}
    /\ UNCHANGED <<clock, state, refTimeout>>
    /\ UNCHANGED restOfDebouncedRef

----------------------------------------------------------------------------
(* Frontend: composables/useAsync.ts *)

\* what asyncFn resolves with, and what it rejects with
Results == {"r1", "r2"}
Rejections == {"e1", "e2"}

NoExecute == [seq |-> 0, result |-> Null]

\* execute up to the await
execute ==
    /\ latest.seq < MaxExecutes
    /\ asyncLoading' = TRUE
    /\ asyncError' = Null
    /\ running' = running \cup {latest.seq + 1}
    /\ latest' = [seq |-> latest.seq + 1, result |-> Null]
    /\ UNCHANGED <<data, rethrown>>
    /\ UNCHANGED restOfAsync

\* execute resumed with the result of asyncFn
executeFulfilled(r, result) ==
    /\ r \in running
    /\ data' = result
    /\ asyncLoading' = FALSE
    /\ running' = running \ {r}
    /\ latest' = IF r = latest.seq THEN [latest EXCEPT !.result = result]
                 ELSE latest
    /\ rethrown' = Null
    /\ UNCHANGED asyncError
    /\ UNCHANGED restOfAsync

\* asyncFn rejects: catch, then finally
executeRejected(r, e) ==
    /\ r \in running
    /\ asyncError' = e
    /\ asyncLoading' = FALSE
    /\ running' = running \ {r}
    /\ rethrown' = e
    /\ UNCHANGED <<data, latest>>
    /\ UNCHANGED restOfAsync

----------------------------------------------------------------------------
(* Specifications *)

InitBackend ==
    /\ now \in 0 .. (Second - 1)
    /\ db = InitialUsers
    /\ held = NoToken
    /\ issue = NoIssue
    /\ resp = NoResp

InitFrontend ==
    /\ ls \in FeTokens \cup {Null}
    /\ token = ls
    /\ user = Null
    /\ loading = FALSE
    /\ inflight = {}
    /\ nav = FALSE
    /\ path \in {"/", "/login"}
    /\ settled = NotSettled

\* the frontend before any page is opened, for the backend specification
FrontendIdle ==
    /\ ls = Null /\ token = Null /\ user = Null /\ loading = FALSE
    /\ inflight = {} /\ nav = FALSE /\ path = "/" /\ settled = NotSettled

\* the backend when the frontend runs against some other server
BackendIdle ==
    /\ now = 0 /\ db = InitialUsers /\ held = NoToken /\ issue = NoIssue
    /\ resp = NoResp

\* no user handler called
UserHandlersIdle ==
    /\ calls = {} /\ minted = 0 /\ uniqueIndex = TRUE

\* the users store as created
UsersStoreIdle ==
    /\ users = <<>> /\ usersLoading = FALSE /\ error = Null
    /\ pending = {} /\ thrown = NotThrown /\ overlap = FALSE

\* the composables as created
DebounceIdle ==
    /\ value = InitialValue /\ timeout = NoTimer /\ timers = {}
    /\ triggers = 0

DebouncedRefIdle ==
    /\ state = InitialValue /\ debouncedState = InitialValue
    /\ refTimeout = NoTimer /\ refTimers = {}

\* useAsync as created
AsyncIdle ==
    /\ data = Null /\ asyncLoading = FALSE /\ asyncError = Null
    /\ running = {} /\ latest = NoExecute /\ rethrown = Null

\* no pagination asked for
PagingIdle ==
    /\ paging = [page |-> 1, pageSize |-> 1, total |-> 0]
    /\ paged = NotPaged

OthersIdle ==
    /\ UserHandlersIdle /\ UsersStoreIdle
    /\ clock = 0 /\ DebounceIdle /\ DebouncedRefIdle
    /\ AsyncIdle
    /\ PagingIdle

Init == InitBackend /\ FrontendIdle /\ OthersIdle

Next ==
    \/ \E email \in Emails, password \in Passwords, dbFails \in BOOLEAN,
          d \in {0, 1} : DoLogin(email, password, dbFails, d)
    \/ \E chain \in Chains : \E h \in Headers(held, now) : DoRequest(chain, h)
    \/ Tick

Spec == Init /\ [][Next]_vars

\* the backend behind its router
NextRoutes ==
    \/ \E email \in Emails, password \in Passwords, dbFails \in BOOLEAN,
          d \in {0, 1} : DoLogin(email, password, dbFails, d)
    \/ \E req \in Requests : \E h \in RouteHeaders(held, now) : DoRoute(req, h)
    \/ Tick

SpecRoutes == Init /\ [][NextRoutes]_vars

\* the user handlers on the users table, with or without the unique index
InitUsers ==
    /\ now = 0 /\ db = InitialUsers /\ held = NoToken /\ issue = NoIssue
    /\ resp = NoResp
    /\ FrontendIdle /\ UsersStoreIdle
    /\ clock = 0 /\ DebounceIdle /\ DebouncedRefIdle /\ AsyncIdle
    /\ PagingIdle
    /\ calls = {} /\ minted = 0 /\ uniqueIndex \in BOOLEAN

NextUsers ==
    \/ \E input \in CreateInputs, dbFails \in BOOLEAN : CreateBegin(input, dbFails)
    \/ \E c \in calls, dbFails \in BOOLEAN : CreateInsert(c, dbFails)
    \/ \E id \in TargetIds, input \in UpdateInputs, dbFails \in BOOLEAN :
          UpdateBegin(id, input, dbFails)
    \/ \E c \in calls, upsert \in BOOLEAN, dbFails \in BOOLEAN :
          UpdateSave(c, upsert, dbFails)
    \/ \E id \in TargetIds, dbFails \in BOOLEAN : DeleteBegin(id, dbFails)
    \/ \E c \in calls, dbFails \in BOOLEAN : DeleteExec(c, dbFails)

SpecUsers == InitUsers /\ [][NextUsers]_vars

InitUsersStore ==
    /\ BackendIdle /\ FrontendIdle /\ OthersIdle

NextUsersStore ==
    \/ fetchAll
    \/ \E p \in pending, result \in ListsUpTo(MaxUsers) : fetchAllFulfilled(p, result)
    \/ create
    \/ \E p \in pending, newUser \in ApiUsers : createFulfilled(p, newUser)
    \/ \E id \in {u.id : u \in ApiUsers} : remove(id)
    \/ \E p \in pending : removeFulfilled(p)
    \/ \E p \in pending, message \in Messages : usersRejected(p, message)

SpecUsersStore == InitUsersStore /\ [][NextUsersStore]_vars

InitDebounce == BackendIdle /\ FrontendIdle /\ OthersIdle

NextDebounce ==
    \/ \E newValue \in Values : set(newValue)
    \/ fire
    \/ elapse

SpecDebounce == InitDebounce /\ [][NextDebounce]_vars

\* the event loop runs the timers that are due, and time goes on
SpecDebounceFair ==
    SpecDebounce /\ WF_vars(fire) /\ WF_vars(elapse)

NextDebouncedRef ==
    \/ \E newValue \in Values : setValue(newValue)
    \/ refFire
    \/ elapse

SpecDebouncedRef == InitDebounce /\ [][NextDebouncedRef]_vars

SpecDebouncedRefFair ==
    SpecDebouncedRef /\ WF_vars(refFire) /\ WF_vars(elapse)

NextAsync ==
    \/ execute
    \/ \E r \in running, result \in Results : executeFulfilled(r, result)
    \/ \E r \in running, e \in Rejections : executeRejected(r, e)

SpecAsync == InitDebounce /\ [][NextAsync]_vars

\* the pagination helpers called with the ints a caller can pass
InitPaging ==
    /\ BackendIdle /\ FrontendIdle
    /\ UserHandlersIdle /\ UsersStoreIdle
    /\ clock = 0 /\ DebounceIdle /\ DebouncedRefIdle /\ AsyncIdle
    /\ paging \in [page : 0..MaxPage, pageSize : 0..MaxPageSize,
                   total : 0..MaxTotal]
    /\ paged = NotPaged

NextPaging == Paginate \/ Query

SpecPaging == InitPaging /\ [][NextPaging]_vars

InitClient == InitFrontend /\ BackendIdle /\ OthersIdle

NextClient ==
    \/ login
    \/ \E r \in inflight, body \in AuthResponses : loginFulfilled(r, body)
    \/ \E r \in inflight, status \in FailStatuses : requestRejected(r, status)
    \/ apiCall
    \/ \E r \in inflight : apiFulfilled(r)
    \/ logout
    \/ pageLoad
    \/ \E to \in RoutePaths : navigate(to)

SpecClient == InitClient /\ [][NextClient]_vars


----------------------------------------------------------------------------
(* Properties of the backend, checked under Spec *)

\* the issuer's signature over the token's own header and claims
SigMatches(x) == x.sig = HMAC(x.hdr.alg, jwtSecret, <<x.hdr, x.claims>>)

\* the header carries a token string that ValidateJWT rejects now (the
\* empty string among them)
TokenFails(h) ==
    \/ h = <<Lit("Bearer"), SP>>
    \/ \E x \in TokenStrings(held, now) :
          h = Bearer(x) /\ ValidateJWT(x, now).err # "nil"

\* the role AdminOnly finds in the context of the request in service
RoleSeen == IF "role" \in DOMAIN resp.locals THEN resp.locals.role ELSE "nil"

\* what AuthMiddleware answers to a header now
GateAnswer(h) ==
    LET c == Serve(<<"AuthMiddleware">>, h, now) IN <<c.status, c.message>>

\* headers that are present and that AuthMiddleware turns away now
FailingHeaders ==
    {h \in Headers(held, now) :
        h # <<>> /\ ~Serve(<<"AuthMiddleware">>, h, now).handlerRan}

\* C1: the status and message of a login for an identifier that matches no
\* principal are those of a login for an existing, active principal with a
\* wrong secret.
C1_EnumerationResistance ==
    (/\ resp.op = "login" /\ ~resp.dbFails
     /\ IsEmail(resp.email) /\ resp.password # ""
     /\ \A u \in db : u.email # resp.email)
    => \A u \in db, p \in Passwords :
          (u.is_active /\ p # "" /\ ~CheckPassword(p, u.password))
          => LET r == Login(db, u.email, p, FALSE, now, now, now) IN
                <<resp.status, resp.message>> = <<r.status, r.message>>

\* C4: at any time before the expiry written in it, the token returned by
\* GenerateJWT passes ValidateJWT, and the claims returned carry the user ID
\* and the role GenerateJWT was called with.
C4_RoundTrip ==
    (held # NoToken /\ now < held.claims.exp * Second)
    => LET v == ValidateJWT(held, now) IN
          /\ v.err = "nil"
          /\ v.claims.user_id = issue.userID
          /\ v.claims.role = issue.role

\* a token validated at the last tick before its expiry, and admitted
C4_Witness ==
    /\ held # NoToken
    /\ now = held.claims.exp * Second - 1
    /\ resp.op = "request" /\ resp.header = Bearer(held)
    /\ resp.handlerRan
    /\ resp.locals.user_id = issue.userID

\* C5: a token issued at time t with the lifetime TokenTTL is accepted one
\* second before t + TokenTTL, and is rejected as expired at t + TokenTTL and
\* at every later time.  (One second is the precision of the timestamps in
\* the token.)
C5_ExpiryBoundary ==
    held # NoToken =>
        /\ (now = issue.at + TokenTTL - Second)
              => ValidateJWT(held, now).err = "nil"
        /\ (now >= issue.at + TokenTTL)
              => ValidateJWT(held, now).err = "Expired"

\* the token presented exactly at t + TokenTTL and turned away
C5_Witness ==
    /\ held # NoToken
    /\ now = issue.at + TokenTTL
    /\ resp.op = "request" /\ resp.chain = <<"AuthMiddleware">>
    /\ resp.header = Bearer(held)
    /\ resp.status = StatusUnauthorized

\* C6: a token of GenerateJWT with its user ID, role or a timestamp changed
\* and the signature kept fails ValidateJWT with a signature error, and no
\* token whose signature is not the issuer's over its own fields is accepted,
\* by ValidateJWT or by a middleware.
C6_TamperDetection ==
    /\ held # NoToken =>
          \A x \in Tampered(held) : ValidateJWT(x, now).err = "SignatureInvalid"
    /\ \A x \in TokenStrings(held, now) :
          (IsJWT(x) /\ ~SigMatches(x)) => ValidateJWT(x, now).err # "nil"
    /\ (/\ resp.op = "request"
        /\ \E x \in TokenStrings(held, now) :
              resp.header = Bearer(x) /\ IsJWT(x) /\ ~SigMatches(x))
       => resp.locals = NoLocals

\* an unexpired token with a claim changed, presented and turned away
C6_Witness ==
    /\ held # NoToken
    /\ ValidateJWT(held, now).err = "nil"
    /\ resp.op = "request" /\ resp.chain = <<"AuthMiddleware">>
    /\ resp.header \in {Bearer(x) : x \in Tampered(held)}
    /\ resp.status = StatusUnauthorized /\ ~resp.handlerRan

\* C7: AdminOnly answers 403 and stops when the context has a role other
\* than admin, calls the next handler when the role is admin, and answers 401
\* only when the context has no role.
C7_ScopeEnforcement ==
    (resp.op = "request" /\ resp.chain[Len(resp.chain)] = "AdminOnly")
    => /\ (RoleSeen # "nil" /\ RoleSeen # "admin")
             => (resp.status = StatusForbidden /\ ~resp.handlerRan)
       /\ (RoleSeen = "admin") => resp.handlerRan
       /\ (RoleSeen = "nil" /\ resp.chain[1] # "AuthMiddleware")
             => (/\ resp.status = StatusUnauthorized
                 /\ resp.message = "Unauthorized" /\ ~resp.handlerRan)
       /\ (resp.status = StatusUnauthorized) => RoleSeen = "nil"

\* an authenticated request of a plain user stopped by AdminOnly with 403
C7_Witness ==
    /\ resp.op = "request" /\ resp.chain = <<"AuthMiddleware", "AdminOnly">>
    /\ RoleSeen = "user"
    /\ resp.status = StatusForbidden /\ ~resp.handlerRan

\* C8 as stated: when the header carries a token that fails verification,
\* AuthMiddleware and OptionalAuth both answer 401 and the handler does not
\* run.
C8_RejectOnFailedVerification ==
    (/\ resp.op = "request"
     /\ resp.chain[1] \in {"AuthMiddleware", "OptionalAuth"}
     /\ TokenFails(resp.header))
    => (resp.status = StatusUnauthorized /\ ~resp.handlerRan)

\* C8 amended: when the header carries a token that fails verification,
\* AuthMiddleware answers 401 and the handler does not run; OptionalAuth
\* does not reject: it calls the next handler with no user_id, email or role
\* in the context.
C8_GateOnFailedVerification ==
    (resp.op = "request" /\ TokenFails(resp.header))
    => /\ (resp.chain[1] = "AuthMiddleware")
             => (resp.status = StatusUnauthorized /\ ~resp.handlerRan)
       /\ (resp.chain[1] = "OptionalAuth") => resp.locals = NoLocals
       /\ (resp.chain = <<"OptionalAuth">>)
             => (resp.handlerRan /\ resp.status = StatusOK)

\* an expired token on a route behind OptionalAuth: the handler runs
C8_Witness ==
    /\ held # NoToken /\ ValidateJWT(held, now).err = "Expired"
    /\ resp.op = "request" /\ resp.chain = <<"OptionalAuth">>
    /\ resp.header = Bearer(held)
    /\ resp.handlerRan /\ resp.locals = NoLocals

\* C9: with no Authorization header, AuthMiddleware answers 401 and the
\* handler does not run; OptionalAuth calls the handler with no user_id,
\* email or role in the context.
C9_AbsentHeader ==
    (resp.op = "request" /\ resp.header = <<>>)
    => /\ (resp.chain[1] = "AuthMiddleware")
             => (/\ resp.status = StatusUnauthorized /\ ~resp.handlerRan
                 /\ resp.locals = NoLocals)
       /\ (resp.chain[1] = "OptionalAuth") => resp.locals = NoLocals
       /\ (resp.chain = <<"OptionalAuth">>)
             => (resp.handlerRan /\ resp.status = StatusOK)

\* a request without header on a route behind OptionalAuth, handler run
C9_Witness ==
    /\ resp.op = "request" /\ resp.chain = <<"OptionalAuth">>
    /\ resp.header = <<>>
    /\ resp.handlerRan /\ resp.locals = NoLocals

\* C10 as stated: AuthMiddleware gives the same status and message to every
\* request whose header is present and whose credential it turns away.
C10_UniformRejection ==
    (/\ resp.op = "request" /\ resp.chain = <<"AuthMiddleware">>
     /\ resp.header \in FailingHeaders)
    => \A h \in FailingHeaders : <<resp.status, resp.message>> = GateAnswer(h)

\* C10 amended: AuthMiddleware answers 401 to every request whose header is
\* present and whose credential it turns away; the message is the same for
\* every token ValidateJWT rejects (malformed, wrongly signed or expired),
\* and is "Invalid authorization format" when the header is not the word
\* Bearer, one space and a token without spaces.
C10_RejectionMessages ==
    (/\ resp.op = "request" /\ resp.chain = <<"AuthMiddleware">>
     /\ resp.header \in FailingHeaders)
    => /\ resp.status = StatusUnauthorized
       /\ TokenFails(resp.header)
             => \A h \in FailingHeaders :
                   TokenFails(h) => <<resp.status, resp.message>> = GateAnswer(h)
       /\ ~TokenFails(resp.header)
             => resp.message = "Invalid authorization format"

\* an expired token turned away while a tampered one and a malformed one
\* would be turned away too
C10_Witness ==
    /\ held # NoToken /\ ValidateJWT(held, now).err = "Expired"
    /\ resp.op = "request" /\ resp.chain = <<"AuthMiddleware">>
    /\ resp.header = Bearer(held)
    /\ resp.message = "Invalid or expired token"
    /\ Bearer(Lit("garbage")) \in FailingHeaders
    /\ \E x \in Tampered(held) : Bearer(x) \in FailingHeaders


\* the login in service reached the principal's row: well-formed input, the
\* lookup succeeded and found a row with the given active flag
LoginFound(active) ==
    /\ resp.op = "login" /\ ~resp.dbFails
    /\ IsEmail(resp.email) /\ resp.password # ""
    /\ \E u \in db : u.email = resp.email /\ u.is_active = active

\* the password of the login in service is the principal's
LoginSecretRight ==
    \E u \in db : u.email = resp.email /\ CheckPassword(resp.password, u.password)

\* C11 as stated: a login for a principal that exists and is not active is
\* answered 403 "Account is inactive", whatever secret is supplied.
C11_DisabledWhateverSecret ==
    LoginFound(FALSE)
    => (resp.status = StatusForbidden /\ resp.message = "Account is inactive")

\* C11 amended: a login for a principal that exists and is not active never
\* returns a token; it is answered 403 "Account is inactive" when the secret
\* supplied is the principal's, and 401 "Invalid credentials" when it is not:
\* the secret is compared before the active flag is tested.
C11_DisabledAfterSecret ==
    LoginFound(FALSE)
    => /\ resp.token = NoToken
       /\ LoginSecretRight
             => (/\ resp.status = StatusForbidden
                 /\ resp.message = "Account is inactive")
       /\ ~LoginSecretRight
             => (/\ resp.status = StatusUnauthorized
                 /\ resp.message = "Invalid credentials")

\* a login of the inactive principal with a wrong secret, answered 401
C11_Witness ==
    /\ LoginFound(FALSE) /\ ~LoginSecretRight
    /\ resp.status = StatusUnauthorized


\* the token strings of the header in service that ValidateJWT accepts now
ValidatedTokens ==
    {x \in TokenStrings(held, now) :
        resp.header = Bearer(x) /\ ValidateJWT(x, now).err = "nil"}

\* C12: user_id, email and role are set in the context of a request if and
\* only if a middleware that reads the header validated the token of that
\* request, and then they are the claims of that token; a request never
\* starts with locals of another one.
C12_ContextOnlyWhenValidated ==
    (resp.op = "request")
    => /\ (resp.locals # NoLocals)
             <=> (/\ resp.chain[1] \in {"AuthMiddleware", "OptionalAuth"}
                  /\ ValidatedTokens # {})
       /\ (resp.locals # NoLocals)
             => \A x \in ValidatedTokens :
                   /\ DOMAIN resp.locals = {"user_id", "email", "role"}
                   /\ resp.locals.user_id = x.claims.user_id
                   /\ resp.locals.email = x.claims.email
                   /\ resp.locals.role = x.claims.role

\* a valid token on a route behind OptionalAuth: the context carries its
\* claims
C12_Witness ==
    /\ held # NoToken
    /\ resp.op = "request" /\ resp.chain = <<"OptionalAuth">>
    /\ resp.header = Bearer(held)
    /\ resp.locals # NoLocals
    /\ resp.locals.user_id = held.claims.user_id


\* the request went to a route that is open by registration
OnPublicRoute ==
    \/ resp.path = <<"health">>
    \/ IsPrefix(V1 \o <<"auth">>, resp.path)

OnAdminRoute == IsPrefix(V1 \o <<"admin">>, resp.path)

(* C13: in the routing built by SetupRoutes, a handler of the protected    *)
(* group runs only after the request's token was validated, a handler      *)
(* under /admin only when the validated role is "admin" (AdminOnly never   *)
(* finds the context empty there), and the only handlers that run for a    *)
(* request without a valid token are /health and the /auth routes, which   *)
(* run whatever the header is.                                             *)
C13_RouteProtection ==
    (resp.op = "route")
    => /\ (resp.handler # "none" /\ ~OnPublicRoute) => ValidatedTokens # {}
       /\ (resp.handler # "none" /\ OnAdminRoute)
             => \E x \in ValidatedTokens : x.claims.role = "admin"
       /\ OnAdminRoute => resp.message # "Unauthorized"
       /\ (resp.handler # "none" /\ ValidatedTokens = {}) => OnPublicRoute
       /\ (OnPublicRoute /\ FirstRoute(resp.method, resp.path) # 0)
             => (resp.handler # "none" /\ resp.status = StatusOK)

\* a protected handler served with a validated token, and an admin handler
\* refused to a validated non-admin, are both reached
C13_Witness ==
    /\ resp.op = "route"
    /\ resp.handler = "userHandler.Delete"
    /\ OnAdminRoute
    /\ ValidatedTokens # {}

\* the principal of the last successful login, as stored
Principal == {u \in db : u.email = issue.email}

\* the token held is sent as issued and the time is before its expiry
HeldTokenInTime ==
    /\ resp.op = "request"
    /\ held # NoToken
    /\ resp.header = Bearer(held)
    /\ now < held.claims.exp * Second

(* C20: a successful login is for an active principal and returns a token  *)
(* whose claims are that principal's ID and role; a later request carrying *)
(* that token before its expiry is admitted by AuthMiddleware with the     *)
(* principal's ID and role in the context, and behind AdminOnly it is      *)
(* answered 403 when the principal's role is "user".                       *)
C20_EndToEnd ==
    /\ (resp.op = "login" /\ resp.status = StatusOK)
          => \E u \in db :
                /\ u.email = resp.email /\ u.is_active
                /\ resp.token = held
                /\ held.claims.user_id = u.id
                /\ held.claims.role = u.role
    /\ (HeldTokenInTime /\ resp.chain[1] = "AuthMiddleware")
          => /\ Principal # {}
             /\ \A u \in Principal :
                   /\ resp.locals # NoLocals
                   /\ resp.locals.user_id = u.id
                   /\ resp.locals.role = u.role
                   /\ (resp.chain = <<"AuthMiddleware">>)
                         => (resp.handlerRan /\ resp.status = StatusOK)
                   /\ (resp.chain = <<"AuthMiddleware", "AdminOnly">>)
                         => IF u.role = "user"
                               THEN /\ resp.status = StatusForbidden
                                    /\ ~resp.handlerRan
                               ELSE resp.handlerRan

\* alice's token, sent in its last valid tick, refused by AdminOnly
C20_Witness ==
    /\ HeldTokenInTime
    /\ issue.email = "alice@x.io"
    /\ resp.chain = <<"AuthMiddleware", "AdminOnly">>
    /\ resp.status = StatusForbidden
    /\ now + 1 = held.claims.exp * Second

----------------------------------------------------------------------------
(* Properties of the user handlers, checked under SpecUsers *)

(* C21: whatever Create, Update and Delete calls are made, a row whose     *)
(* role is "admin" stays in the table; Delete on such a row, when its      *)
(* lookup succeeds, answers 403 and leaves the table as it was; no call    *)
(* changes the role of a row: the rows the table started with keep their   *)
(* role and every inserted row has the role "user".                        *)
C21_AdminNeverDeleted ==
    [][ /\ \A u \in db : IsAdmin(u) => \E v \in db' : v.id = u.id /\ IsAdmin(v)
        /\ \A u \in db, v \in db' : u.id = v.id => v.role = u.role
        /\ \A v \in db' :
              IF \E u \in InitialUsers : u.id = v.id
                 THEN \E u \in InitialUsers : u.id = v.id /\ u.role = v.role
                 ELSE v.role = "user"
        /\ \A id \in TargetIds :
              (DeleteBegin(id, FALSE) /\ \E u \in db : u.id = id /\ IsAdmin(u))
              => /\ resp' = UserResp("delete", StatusForbidden,
                                     "Cannot delete admin user")
                 /\ db' = db /\ calls' = calls ]_vars

\* Delete refused for the admin after the admin was updated and another
\* user deleted
C21_Witness ==
    /\ resp.op = "delete" /\ resp.status = StatusForbidden
    /\ \E u \in db : u.id = "u2" /\ IsAdmin(u) /\ u.name = "Zed"
    /\ ~\E u \in db : u.id = "u1"
    /\ \E u \in db : u.id = "n1"

\* no two rows of the table have the same email
OneUserPerEmail(rows) ==
    \A u, v \in rows : u.email = v.email => u.id = v.id

(* C22: a Create whose email belongs to a stored row when it comes to      *)
(* insert answers 409 "Email already exists" and inserts nothing, and so,  *)
(* however concurrent Create calls interleave, no two rows have the same   *)
(* email.                                                                  *)
C22_EmailUniqueOnCreate ==
    [][ /\ OneUserPerEmail(db')
        /\ \A c \in calls, dbFails \in BOOLEAN :
              (/\ c.op = "create"
               /\ CreateInsert(c, dbFails)
               /\ \E u \in db : u.email = c.locals.email)
              => /\ resp' = UserResp("create", StatusConflict,
                                     "Email already exists")
                 /\ db' = db ]_vars

----------------------------------------------------------------------------
(* Properties of the frontend, checked under SpecClient *)

\* C2: when a credential has been set by a successful login and a response
\* with status 401 is received, then after the response is handled the auth
\* store holds no credential (token.value and the persisted token are both
\* absent) and the redirect to /login is under way.
C2_SessionReconciliation ==
    [][ (/\ token # Null /\ user # Null
         /\ \E r \in inflight : requestRejected(r, StatusUnauthorized))
        => (token' = Null /\ ls' = Null /\ nav') ]_vars

\* C3: the token in memory and the token in localStorage are both absent or
\* both the same value.
C3_TokenMatchesStorage == token = ls

\* C23: when a credential is stored, in memory and in localStorage, and a
\* login call is answered 401, then after the failure token.value and the
\* persisted token are what they were and no redirect to /login has been
\* started by it.
C23_FailedLoginKeepsCredential ==
    [][ \A r \in inflight :
           (/\ r.kind = "login"
            /\ token # Null /\ ls = token
            /\ requestRejected(r, StatusUnauthorized))
           => (token' = token /\ ls' = ls /\ nav' = nav) ]_vars

\* C14: every request that leaves through the client carries
\* "Authorization: Bearer <token>" with the token stored at the time it is
\* sent when there is one, and no Authorization header when there is none.
C14_Attach ==
    [][ \A r \in inflight' \ inflight :
           r.hdr = (IF ls # Null THEN <<"Bearer", ls>> ELSE <<>>) ]_vars

\* a request sent with the stored token is still in flight beside one sent
\* with no header after a 401 removed the stored token
C14_Witness ==
    /\ settled.status = StatusUnauthorized
    /\ \E r, q \in inflight :
          r.hdr = <<"Bearer", "tok-a">> /\ q.hdr = <<>>

\* C15: when login succeeds, token.value and the persisted token are both
\* the token of the answer, whatever was stored before, and the user is the
\* answer's; when login fails, the caller gets the failure as it came, no
\* request is sent again and the store keeps what it held.
C15_LoginStoresToken ==
    [][ /\ \A r \in inflight, body \in AuthResponses :
              loginFulfilled(r, body)
              => /\ token' = body.token /\ ls' = body.token
                 /\ user' = body.user
                 /\ ~loading'
                 /\ inflight' = inflight \ {r}
        /\ \A r \in inflight, status \in FailStatuses :
              (r.kind = "login" /\ requestRejected(r, status))
              => /\ settled' = [kind |-> "login", status |-> status]
                 /\ token' = token /\ user' = user
                 /\ ~loading'
                 /\ inflight' = inflight \ {r} ]_vars

\* a login answered with bob's token while a request sent with the token
\* stored before is still in flight
C15_Witness ==
    /\ settled = [kind |-> "login", status |-> StatusOK]
    /\ token = "tok-b" /\ ls = "tok-b" /\ user = "bob"
    /\ \E r \in inflight : r.hdr = <<"Bearer", "tok-a">>

\* C16: logout can be called in every state; after it token.value and user
\* are null, the persisted token is removed and isAuthenticated is false,
\* and a second call right after the first changes nothing.
C16_IdempotentLogout ==
    [][ logout
        => /\ token' = Null /\ user' = Null /\ ls' = Null
           /\ ~isAuthenticated'
           /\ (token = Null /\ user = Null /\ ls = Null /\ path = "/login")
                 => UNCHANGED vars ]_vars

\* logged out after a login that had succeeded
C16_Witness ==
    /\ settled = [kind |-> "login", status |-> StatusOK]
    /\ token = Null /\ user = Null /\ ls = Null /\ path = "/login"

\* C17: a response with status 401 is handled once: it leaves the requests
\* in flight, no request is sent because of it, the persisted token is
\* removed and the redirect to /login started; when the persisted token is
\* already removed it stays removed and nothing else of the store changes.
C17_RejectionHandling ==
    [][ \A r \in inflight :
           requestRejected(r, StatusUnauthorized)
           => /\ inflight' = inflight \ {r}
              /\ ls' = Null /\ nav'
              /\ token' = token /\ user' = user
              /\ settled' = [kind |-> r.kind, status |-> StatusUnauthorized] ]_vars

\* a 401 handled while the store holds no token
C17_Witness ==
    /\ settled.status = StatusUnauthorized
    /\ token = Null /\ ls = Null /\ nav
    /\ path = "/"

\* C18: a navigation to a route with requiresAuth ends on that route only
\* if isAuthenticated is true when it is made, and on /login otherwise; a
\* navigation to a route without requiresAuth, /login among them, ends on
\* that route; no navigation is given up for redirecting in a loop.
C18_RouterGuard ==
    [][ \A to \in RoutePaths :
           navigate(to)
           => /\ requiresAuth(to) => (path' = to <=> isAuthenticated)
              /\ (requiresAuth(to) /\ ~isAuthenticated) => path' = "/login"
              /\ ~requiresAuth(to) => path' = to
              /\ path' \in RoutePaths ]_vars

\* /users shown to an authenticated user
C18_Witness ==
    /\ path = "/users"
    /\ isAuthenticated

----------------------------------------------------------------------------
(* Properties of the users store, checked under SpecUsersStore *)

\* C24: loading is true when at least one of fetchAll, create and remove is
\* awaiting its API call and false when none is, also when calls overlap.
C24_LoadingWhileInFlight == usersLoading <=> (pending # {})

C26_ErrorFreshness ==
    (~overlap /\ pending = {} /\ thrown.kind # "none")
    => (error # Null <=> thrown.message # Null)

----------------------------------------------------------------------------
(* Properties of the debounce composables *)

(* C27: the value read through the customRef changes only when the timer   *)
(* scheduled by the last call of set runs, not before Delay has passed     *)
(* since that call; it then becomes the value of that call, with one call  *)
(* of trigger, and no timer is left: the values and the timers of the      *)
(* earlier calls of a burst never show.  When the calls stop, the update   *)
(* happens.  Checked under SpecDebounceFair.                               *)
C27_DebounceCollapsesBursts ==
    /\ [][ /\ (value' # value \/ triggers' # triggers)
              => /\ timeout \in timers
                 /\ clock >= timeout.due
                 /\ value' = timeout.val
                 /\ triggers' = triggers + 1
                 /\ timers' = {}
           /\ \A newValue \in Values :
                 set(newValue)
                 => /\ timers' = {timeout'}
                    /\ timeout'.val = newValue
                    /\ timeout'.due = clock + Delay ]_vars
    /\ <>[](timers = {} /\ (timeout # NoTimer => value = timeout.val))

\* three calls of set, of which the last is the only one whose timer ran
C27_Witness ==
    /\ timeout.id = 3
    /\ triggers = 1
    /\ timers = {}
    /\ value = timeout.val /\ value # InitialValue
    /\ clock < 3 * Delay

(* C28: setValue sets value at once; debouncedValue changes only when the  *)
(* timer of the last call of setValue runs, not before Delay has passed    *)
(* since that call, and becomes the value of that call; when setValue is   *)
(* no longer called, debouncedValue ends up equal to value.  Checked under *)
(* SpecDebouncedRefFair.                                                   *)
C28_DebouncedRefConverges ==
    /\ [][ /\ \A newValue \in Values :
                 setValue(newValue)
                 => (state' = newValue /\ debouncedState' = debouncedState)
           /\ (debouncedState' # debouncedState)
              => /\ refTimeout \in refTimers
                 /\ clock >= refTimeout.due
                 /\ debouncedState' = refTimeout.val
                 /\ debouncedState' = state ]_vars
    /\ <>[](debouncedState = state)

\* value and debouncedValue have met again after three calls of setValue
C28_Witness ==
    /\ refTimeout.id = 3
    /\ refTimers = {}
    /\ debouncedState = state /\ state # InitialValue

----------------------------------------------------------------------------
(* Properties of useAsync, checked under SpecAsync *)

(* C29: execute sets loading to true and error to null when it starts;     *)
(* when asyncFn resolves data becomes the result; when it rejects data is  *)
(* kept, error is the rejection and the rejection is thrown; loading is    *)
(* false once the call settles; and once every call has settled, data is   *)
(* the result of the call that was started last, if that call resolved.    *)
C29_ExecuteOutcomes ==
    [][ /\ execute => (asyncLoading' /\ asyncError' = Null)
        /\ \A r \in running, result \in Results :
              executeFulfilled(r, result)
              => (data' = result /\ ~asyncLoading')
        /\ \A r \in running, e \in Rejections :
              executeRejected(r, e)
              => /\ data' = data /\ asyncError' = e /\ rethrown' = e
                 /\ ~asyncLoading'
        /\ (running' = {} /\ latest'.result # Null)
              => data' = latest'.result ]_vars

----------------------------------------------------------------------------
(* Properties of the pagination helpers, checked under SpecPaging *)

\* n is the ceiling of total / pageSize: 0 when total is 0, otherwise the
\* least n with n * pageSize >= total
IsCeiling(n, totalItems, pageSize) ==
    IF totalItems = 0 THEN n = 0
    ELSE /\ n * pageSize >= totalItems
         /\ \A m \in 0..(n - 1) : m * pageSize < totalItems

(* C30: for every total >= 0 and every pageSize a caller passes,            *)
(* PaginatedResponse does not fail and reports as total_pages the ceiling  *)
(* of total / pageSize; GetWithPagination reads from offset (page - 1) *   *)
(* pageSize, which is not negative for a page from 1 on and a pageSize     *)
(* from 1 on.                                                              *)
C30_PageCount ==
    /\ (paged.op = "PaginatedResponse")
          => /\ paged.out.status = StatusOK
             /\ IsCeiling(paged.out.total_pages, paging.total, paging.pageSize)
    /\ (paged.op = "GetWithPagination")
          => /\ paged.out.offset = (paging.page - 1) * paging.pageSize
             /\ (paging.page >= 1 /\ paging.pageSize >= 1)
                   => paged.out.offset >= 0

====
